---- MODULE Spec2Model ----
(***************************************************************************)
(* Model of src/app/main.py: the POST /resolve handler of the kiosk price  *)
(* service.  One request is a small state machine: validate the domain of  *)
(* the scanned URL, extract the SKU id, call the catalog, the pricing and  *)
(* the inventory endpoints in that order, and answer.                      *)
(*                                                                         *)
(* Strings are sequences of one-character strings, so that urlparse,       *)
(* parse_qs, str.lower, str.isdigit, int() and re.search are computed      *)
(* character by character, as the Python code computes them.  The          *)
(* alphabet of the modelled URLs is ASCII.                                 *)
(***************************************************************************)
EXTENDS Integers, Sequences, FiniteSets, TLC

VARIABLES
    pc,          \* position of the resolve() coroutine
    url,         \* payload.url, the raw URL of the request
    upstream,    \* what the three upstream endpoints answer to this request
    sku_id,      \* resolve(): sku_id
    product_name,\* resolve(): product_name
    pricing,     \* resolve(): pricing (selling, list, raw)
    stock,       \* resolve(): (qty, in_stock)
    calls,       \* outbound HTTP calls issued so far, in order
    response     \* the HTTP response of /resolve, NoResponse while running

vars == <<pc, url, upstream, sku_id, product_name, pricing, stock, calls, response>>

(***************************************************************************)
(* Python values.  None, numbers and junk are tagged records so that any   *)
(* two values can be compared.                                             *)
(***************************************************************************)
None == [k |-> "none"]
Num(n) == [k |-> "num", n |-> n]
Bad == [k |-> "bad"]
IsNum(v) == v.k = "num"

\* Python truthiness of None / number: None and 0 are falsy.
Truthy(v) == CASE v.k = "none" -> FALSE
               [] v.k = "num" -> v.n # 0
               [] OTHER -> TRUE

\* Python's  a or b
PyOr(a, b) == IF Truthy(a) THEN a ELSE b

(***************************************************************************)
(* Characters.                                                             *)
(***************************************************************************)
UpperCase == <<"A","B","C","D","E","F","G","H","I","J","K","L","M",
               "N","O","P","Q","R","S","T","U","V","W","X","Y","Z">>
LowerCase == <<"a","b","c","d","e","f","g","h","i","j","k","l","m",
               "n","o","p","q","r","s","t","u","v","w","x","y","z">>
Digits == <<"0","1","2","3","4","5","6","7","8","9">>

Range(s) == {s[i] : i \in DOMAIN s}
UpperSet == Range(UpperCase)
LowerSet == Range(LowerCase)
DigitSet == Range(Digits)

\* str.lower on one character
LowerChar(c) ==
    IF c \in UpperSet
    THEN LowerCase[CHOOSE i \in DOMAIN UpperCase : UpperCase[i] = c]
    ELSE c

\* str.lower
Lower(s) == [i \in DOMAIN s |-> LowerChar(s[i])]

IsDigitChar(c) == c \in DigitSet
IsAlphaChar(c) == c \in UpperSet \cup LowerSet

\* str.isdigit: non-empty and every character a digit
IsDigit(s) == Len(s) > 0 /\ \A i \in DOMAIN s : IsDigitChar(s[i])

DigitValue(c) == (CHOOSE i \in DOMAIN Digits : Digits[i] = c) - 1

\* int(s) for a string of digits (leading zeros are dropped by the value)
RECURSIVE ToInt(_)
ToInt(s) ==
    IF Len(s) = 0 THEN 0
    ELSE 10 * ToInt(SubSeq(s, 1, Len(s) - 1)) + DigitValue(s[Len(s)])

\* str.find from position `from`: index of the first c, 0 when there is none
Find(s, cs, from) ==
    LET hits == {i \in from..Len(s) : s[i] \in cs}
    IN  IF hits = {} THEN 0 ELSE CHOOSE i \in hits : \A j \in hits : i <= j

\* str.split(c)
RECURSIVE Split(_, _)
Split(s, c) ==
    LET i == Find(s, {c}, 1)
    IN  IF i = 0 THEN <<s>>
        ELSE <<SubSeq(s, 1, i - 1)>> \o Split(SubSeq(s, i + 1, Len(s)), c)

StartsWith(s, p) == Len(s) >= Len(p) /\ SubSeq(s, 1, Len(p)) = p
EndsWith(s, p) == Len(s) >= Len(p) /\ SubSeq(s, Len(s) - Len(p) + 1, Len(s)) = p

(***************************************************************************)
(* Configuration (environment defaults).                                   *)
(***************************************************************************)
STORE_DOMAIN == <<"w","w","w",".","t","i","e","n","d","a","c","o","l","u","c","c","i",
                  ".","c","o","m",".","a","r">>
SALES_CHANNEL == "1"

(***************************************************************************)
(* urllib.parse.urlparse: scheme, netloc, path, query, fragment.           *)
(***************************************************************************)
SchemeChars == UpperSet \cup LowerSet \cup DigitSet \cup {"+", "-", "."}

\* index of the ':' that ends the scheme, 0 when the URL has no scheme
SchemeEnd(raw) ==
    LET i == Find(raw, {":"}, 1)
    IN  IF i > 1 /\ IsAlphaChar(raw[1]) /\ \A j \in 1..(i - 1) : raw[j] \in SchemeChars
        THEN i ELSE 0

urlparse(raw) ==
    LET colon == SchemeEnd(raw)
        rest1 == SubSeq(raw, colon + 1, Len(raw))
        hasNet == StartsWith(rest1, <<"/", "/">>)
        delim == Find(rest1, {"/", "?", "#"}, 3)
        netEnd == IF delim = 0 THEN Len(rest1) ELSE delim - 1
        netloc == IF hasNet THEN SubSeq(rest1, 3, netEnd) ELSE <<>>
        rest2 == IF hasNet THEN SubSeq(rest1, netEnd + 1, Len(rest1)) ELSE rest1
        h == Find(rest2, {"#"}, 1)
        rest3 == IF h = 0 THEN rest2 ELSE SubSeq(rest2, 1, h - 1)
        fragment == IF h = 0 THEN <<>> ELSE SubSeq(rest2, h + 1, Len(rest2))
        q == Find(rest3, {"?"}, 1)
    IN  [scheme |-> Lower(SubSeq(raw, 1, colon - 1)),
         netloc |-> netloc,
         path |-> IF q = 0 THEN rest3 ELSE SubSeq(rest3, 1, q - 1),
         query |-> IF q = 0 THEN <<>> ELSE SubSeq(rest3, q + 1, Len(rest3)),
         fragment |-> fragment]

(***************************************************************************)
(* urllib.parse.parse_qs (keep_blank_values = False).                      *)
(***************************************************************************)
HexDigits == <<"0","1","2","3","4","5","6","7","8","9","A","B","C","D","E","F">>
HexSet == Range(HexDigits) \cup {"a","b","c","d","e","f"}
IsHexChar(c) == c \in HexSet
HexValue(c) ==
    LET u == IF c \in {"a","b","c","d","e","f"}
             THEN UpperCase[CHOOSE i \in DOMAIN LowerCase : LowerCase[i] = c] ELSE c
    IN  (CHOOSE i \in DOMAIN HexDigits : HexDigits[i] = u) - 1

\* chr() of the ASCII codes of digits and letters; other codes stay escaped
Chr(code, escaped) ==
    IF code \in 48..57 THEN <<Digits[code - 47]>>
    ELSE IF code \in 65..90 THEN <<UpperCase[code - 64]>>
    ELSE IF code \in 97..122 THEN <<LowerCase[code - 96]>>
    ELSE escaped

\* unquote(s.replace('+', ' '))
RECURSIVE unquote_plus(_)
unquote_plus(s) ==
    IF Len(s) = 0 THEN <<>>
    ELSE IF s[1] = "+" THEN <<" ">> \o unquote_plus(Tail(s))
    ELSE IF s[1] = "%" /\ Len(s) >= 3 /\ IsHexChar(s[2]) /\ IsHexChar(s[3])
         THEN Chr(16 * HexValue(s[2]) + HexValue(s[3]), SubSeq(s, 1, 3))
              \o unquote_plus(SubSeq(s, 4, Len(s)))
    ELSE <<s[1]>> \o unquote_plus(Tail(s))

\* one name=value piece: <<name, value>>, or <<>> when the piece is dropped
ParsePair(piece) ==
    LET e == Find(piece, {"="}, 1)
    IN  IF e = 0 \/ e = Len(piece) THEN <<>>
        ELSE <<[name |-> unquote_plus(SubSeq(piece, 1, e - 1)),
                value |-> unquote_plus(SubSeq(piece, e + 1, Len(piece)))]>>

RECURSIVE ParsePairs(_)
ParsePairs(pieces) ==
    IF Len(pieces) = 0 THEN <<>>
    ELSE ParsePair(Head(pieces)) \o ParsePairs(Tail(pieces))

\* the pairs of the query in order; qs[k] is the list of values under name k
parse_qs(query) == ParsePairs(Split(query, "&"))

\* a slip: qs[k][-1], the last value under name k
QsLast(qs, k) == qs[CHOOSE i \in DOMAIN qs :
                       qs[i].name = k /\ \A j \in (i + 1)..Len(qs) : qs[j].name # k].value

\* k in qs
QsHas(qs, k) == \E i \in DOMAIN qs : qs[i].name = k
\* qs[k][0]
QsFirst(qs, k) == qs[CHOOSE i \in DOMAIN qs :
                        qs[i].name = k /\ \A j \in 1..(i - 1) : qs[j].name # k].value

(***************************************************************************)
(* Exceptions and HTTP responses.  HTTPException carries its status; any   *)
(* other exception that leaves resolve() is answered 500 by the framework. *)
(***************************************************************************)
Str(s) == [k |-> "str", s |-> s]
Bool(b) == [k |-> "bool", b |-> b]
List(items) == [k |-> "list", items |-> items]
Dict(d) == [k |-> "dict", d |-> d]

Return(v) == [ok |-> TRUE, value |-> v]
Raise(e) == [ok |-> FALSE, value |-> e]
HTTPException(status, detail) == [exc |-> "HTTPException", status |-> status, detail |-> detail]
Error(name) == [exc |-> name, status |-> 0, detail |-> ""]

NoResponse == [status |-> 0, detail |-> "", body |-> None]
InternalServerError == [status |-> 500, detail |-> "Internal Server Error", body |-> None]

\* the response the framework sends for an exception that leaves resolve()
ErrorResponse(e) ==
    IF e.exc = "HTTPException"
    THEN [status |-> e.status, detail |-> e.detail, body |-> None]
    ELSE InternalServerError

(***************************************************************************)
(* extract_sku_id_from_url                                                 *)
(***************************************************************************)
candidates == <<<<"s","k","u","I","d">>,
               <<"s","k","u","i","d">>,
               <<"i","t","e","m","I","d">>,
               <<"i","t","e","m","_","i","d">>,
               <<"I","T","E","M","_","I","D">>,
               <<"S","k","u","I","d">>,
               <<"I","t","e","m","I","d">>>>

\* the alternatives of the regex, in order
Keywords == <<<<"s","k","u">>,
             <<"s","k","u","i","d">>,
             <<"i","t","e","m">>,
             <<"i","t","e","m","i","d">>,
             <<"i","t","e","m","_","i","d">>>>
Separators == {"=", "/", "-"}

\* (?:sku|skuid|item|itemid|item_id)[=/\-](\d+) matched at position i of s
\* (s lower-cased for re.IGNORECASE): the position of the first digit, else 0
MatchAt(s, i) ==
    LET fits(kw) == /\ i + Len(kw) + 1 <= Len(s)
                    /\ SubSeq(s, i, i + Len(kw) - 1) = kw
                    /\ s[i + Len(kw)] \in Separators
                    /\ IsDigitChar(s[i + Len(kw) + 1])
        ks == {j \in DOMAIN Keywords : fits(Keywords[j])}
    IN  IF ks = {} THEN 0
        ELSE i + Len(Keywords[CHOOSE j \in ks : \A l \in ks : j <= l]) + 1

\* re.search(...).group(1): the digits of the leftmost match, <<>> when no match
RegexSearch(text) ==
    LET s == Lower(text)
        starts == {i \in DOMAIN s : MatchAt(s, i) > 0}
    IN  IF starts = {} THEN <<>>
        ELSE LET i == CHOOSE a \in starts : \A b \in starts : a <= b
                 d == MatchAt(s, i)
                 rest == {j \in d..Len(s) : ~IsDigitChar(s[j])}
                 stop == IF rest = {} THEN Len(s) + 1
                         ELSE CHOOSE a \in rest : \A b \in rest : a <= b
             IN  SubSeq(text, d, stop - 1)

\* the first candidate, in order from position i, whose first value is all digits
RECURSIVE CandidateScan(_, _)
CandidateScan(qs, i) ==
    IF i > Len(candidates) THEN None
    ELSE IF QsHas(qs, candidates[i]) /\ IsDigit(QsFirst(qs, candidates[i]))
         THEN Num(ToInt(QsFirst(qs, candidates[i])))
         ELSE CandidateScan(qs, i + 1)

\* a slip: the regex scan consulted before the query parameters
extract_regex_first(raw_url) ==
    LET u == urlparse(raw_url)
        qs == parse_qs(u.query)
        byParam == CandidateScan(qs, 1)
        m == RegexSearch(u.path \o <<"?">> \o u.query)
    IN  IF m # <<>> THEN Num(ToInt(m))
        ELSE IF byParam # None THEN byParam
        ELSE None

extract_sku_id_from_url(raw_url) ==
    LET u == urlparse(raw_url)
        qs == parse_qs(u.query)
        byParam == CandidateScan(qs, 1)
        m == RegexSearch(u.path \o <<"?">> \o u.query)
    IN  IF byParam # None THEN byParam
        ELSE IF m # <<>> THEN Num(ToInt(m))
        ELSE None

(***************************************************************************)
(* validate_domain                                                         *)
(***************************************************************************)
\* a slip: the suffix test without the dot, so "evil" + domain passes
validate_domain_suffix(raw_url) ==
    LET u == urlparse(raw_url)
        host == Lower(u.netloc)
    IN  IF host = <<>> THEN Raise(HTTPException(400, "URL sin dominio"))
        ELSE IF EndsWith(host, Lower(STORE_DOMAIN)) THEN Return(None)
        ELSE Raise(HTTPException(400, "Dominio no permitido"))

validate_domain(raw_url) ==
    LET u == urlparse(raw_url)
        host == Lower(u.netloc)
    IN  IF host = <<>> THEN Raise(HTTPException(400, "URL sin dominio"))
        ELSE IF host = Lower(STORE_DOMAIN) \/ EndsWith(host, <<".">> \o Lower(STORE_DOMAIN))
             THEN Return(None)
        ELSE Raise(HTTPException(400, "Dominio no permitido"))

(***************************************************************************)
(* Upstream answers.  An answer is a timeout (or any transport error), or  *)
(* an HTTP response whose body is JSON or not.                             *)
(***************************************************************************)
Timeout == [outcome |-> "timeout", status |-> 0, body |-> None]
Http(status, body) == [outcome |-> "response", status |-> status, body |-> body]
NotJson == [k |-> "notjson"]

\* client.get(...): the transport error, if any
Get(answer) ==
    IF answer.outcome = "timeout" THEN Raise(Error("TimeoutException")) ELSE Return(answer)

\* r.raise_for_status(): any status outside 200..299 raises
raise_for_status(r) ==
    IF r.status \in 200..299 THEN Return(None) ELSE Raise(Error("HTTPStatusError"))

\* r.json()
json(r) == IF r.body = NotJson THEN Raise(Error("JSONDecodeError")) ELSE Return(r.body)

\* data.get(key) on a JSON object: None when the key is absent
DictGet(data, key) == IF key \in DOMAIN data.d THEN data.d[key] ELSE None

(***************************************************************************)
(* get_sku_basic                                                           *)
(***************************************************************************)
\* a slip: a failed catalog call answered with an empty record
get_sku_basic_lenient(answer) ==
    LET r == Get(answer)
    IN  IF r.ok /\ raise_for_status(r.value).ok /\ json(r.value).ok
        THEN json(r.value)
        ELSE Return(Dict([Id |-> None]))

get_sku_basic(answer) ==
    LET r == Get(answer)
    IN  IF ~r.ok THEN r
        ELSE IF r.value.status = 404 THEN Raise(HTTPException(404, "SKU no existe"))
        ELSE IF ~raise_for_status(r.value).ok THEN raise_for_status(r.value)
        ELSE json(r.value)

\* resolve(), the product name with its fallbacks
ProductName(sku, id) ==
    IF sku.k # "dict" THEN Raise(Error("AttributeError"))
    ELSE Return(PyOr(DictGet(sku, "NameComplete"),
                PyOr(DictGet(sku, "Name"),
                PyOr(DictGet(sku, "name"),
                PyOr(DictGet(sku, "nameComplete"), [k |-> "fstr", sku |-> id])))))

(***************************************************************************)
(* get_pricing_price_any_visibility                                        *)
(* Prices are held in thousandths of the currency unit, so that 199.9 is   *)
(* 199900 and round(value * 100) is a rounding of thousandths to cents.    *)
(***************************************************************************)
\* str(x) of a string or of a one-digit integer
PyStr(v) == IF v.k = "str" THEN v.s ELSE Digits[v.n + 1]

\* the first entry of fixed_list whose trade policy is sc, None when none is
FirstFixed(fixed_list, sc) ==
    LET tpid(fp) == PyOr(DictGet(fp, "tradePolicyId"), DictGet(fp, "TradePolicyId"))
        hits == {i \in DOMAIN fixed_list :
                    tpid(fixed_list[i]) # None /\ PyStr(tpid(fixed_list[i])) = sc}
    IN  IF hits = {} THEN None
        ELSE fixed_list[CHOOSE i \in hits : \A j \in hits : i <= j]

\* float(x)
Float(v) == IF IsNum(v) THEN Return(v) ELSE Raise(Error("ValueError"))

\* lines 133-164, once the payload is read
SelectPrice(data, sc) ==
    IF data.k # "dict" THEN Raise(Error("AttributeError"))
    ELSE
    LET fl == PyOr(DictGet(data, "fixedPrices"), PyOr(DictGet(data, "FixedPrices"), List(<<>>)))
        fixed == FirstFixed(fl.items, sc)
        base_price == PyOr(DictGet(data, "basePrice"), DictGet(data, "BasePrice"))
        list0 == PyOr(DictGet(data, "listPrice"), DictGet(data, "ListPrice"))
        selling0 == IF fixed # None
                    THEN PyOr(DictGet(fixed, "value"), DictGet(fixed, "Value"))
                    ELSE None
        list_price == IF fixed # None
                      THEN PyOr(DictGet(fixed, "listPrice"),
                                PyOr(DictGet(fixed, "ListPrice"), list0))
                      ELSE list0
        selling == IF selling0 = None THEN base_price ELSE selling0
    IN  IF selling = None THEN Raise(HTTPException(404, "SKU sin precio configurado"))
        ELSE IF ~Float(selling).ok THEN Float(selling)
        ELSE IF list_price # None /\ ~Float(list_price).ok THEN Float(list_price)
        ELSE Return([selling |-> selling, list |-> list_price, raw |-> data])

get_pricing_price_any_visibility(answer, sc) ==
    LET r == Get(answer)
    IN  IF ~r.ok THEN r
        ELSE IF r.value.status = 404
             THEN Raise(HTTPException(404, "SKU sin precio configurado"))
        ELSE IF ~raise_for_status(r.value).ok THEN raise_for_status(r.value)
        ELSE IF ~json(r.value).ok THEN json(r.value)
        ELSE SelectPrice(json(r.value).value, sc)

(***************************************************************************)
(* get_stock_quantity_if_possible                                          *)
(***************************************************************************)
\* int(x)
PyInt(v) == IF IsNum(v) THEN Return(v.n) ELSE Raise(Error("ValueError"))

\* the loop over balances from entry i on: [total, found_any], or a raise
RECURSIVE SumBalances(_, _, _, _)
SumBalances(balances, i, total, found_any) ==
    IF i > Len(balances) THEN Return([total |-> total, found_any |-> found_any])
    ELSE LET b == balances[i]
         IN  IF b.k # "dict" THEN Raise(Error("AttributeError"))
             ELSE LET tq == DictGet(b, "totalQuantity")
                      aq == DictGet(b, "availableQuantity")
                  IN  IF tq # None
                      THEN IF PyInt(tq).ok
                           THEN SumBalances(balances, i + 1, total + PyInt(tq).value, TRUE)
                           ELSE PyInt(tq)
                      ELSE IF aq # None
                      THEN IF PyInt(aq).ok
                           THEN SumBalances(balances, i + 1, total + PyInt(aq).value, TRUE)
                           ELSE PyInt(aq)
                      ELSE SumBalances(balances, i + 1, total, found_any)

\* a slip: the total answered even when no entry had a quantity
StockResultDefaultZero(total, found_any) == <<Num(total), Bool(total > 0)>>

\* lines 200-203
StockResult(total, found_any) ==
    IF ~found_any THEN <<None, None>> ELSE <<Num(total), Bool(total > 0)>>

\* the body of the try block
StockTry(answer) ==
    LET r == Get(answer)
    IN  IF ~r.ok THEN r
        ELSE IF r.value.status \in {403, 404} THEN Return(<<None, None>>)
        ELSE IF ~raise_for_status(r.value).ok THEN raise_for_status(r.value)
        ELSE IF ~json(r.value).ok THEN json(r.value)
        ELSE LET data == json(r.value).value
             IN  IF data.k # "dict" THEN Raise(Error("AttributeError"))
                 ELSE LET balances == PyOr(DictGet(data, "balance"),
                                           PyOr(DictGet(data, "Balance"), List(<<>>)))
                          sum == IF balances.k = "list"
                                 THEN SumBalances(balances.items, 1, 0, FALSE)
                                 ELSE Return([total |-> 0, found_any |-> FALSE])
                      IN  IF ~sum.ok THEN sum
                          ELSE Return(StockResult(sum.value.total, sum.value.found_any))

\* a slip: no try/except around the inventory call
get_stock_quantity_unguarded(answer) == StockTry(answer)

\* try: ... except Exception: return None, None
get_stock_quantity_if_possible(answer) ==
    IF StockTry(answer).ok THEN StockTry(answer) ELSE Return(<<None, None>>)

(***************************************************************************)
(* resolve(): cents and the response body                                  *)
(***************************************************************************)
\* int(round(x * 100)) for x in thousandths: Python rounds halves to even
RoundCents(mills) ==
    LET q == mills \div 10
        r == mills % 10
    IN  IF r < 5 THEN q
        ELSE IF r > 5 THEN q + 1
        ELSE IF q % 2 = 0 THEN q ELSE q + 1

ResponseBody(id, name, price, qty, in_stock) ==
    [skuId |-> id,
     productName |-> name,
     sellingPrice |-> Num(RoundCents(price.selling.n)),
     listPrice |-> IF price.list # None THEN Num(RoundCents(price.list.n)) ELSE None,
     availableQuantity |-> qty,
     inStock |-> in_stock,
     source |-> "pricing_api"]

(***************************************************************************)
(* The requests and upstream answers the model explores.                   *)
(***************************************************************************)
MaxParams == 2
MaxFixed == 2
MaxBalances == 2

SeqsUpTo(set, n) == UNION {[1..m -> set] : m \in 0..n}

RECURSIVE Join(_, _)
Join(ps, sep) ==
    IF Len(ps) = 0 THEN <<>>
    ELSE IF Len(ps) = 1 THEN ps[1]
    ELSE ps[1] \o sep \o Join(Tail(ps), sep)

Https == <<"h","t","t","p","s",":","/","/">>
Schemes == {Https, <<>>}
Netlocs == {<<"w","w","w",".","t","i","e","n","d","a","c","o","l","u","c","c","i",".","c","o","m",".","a","r">>,
            <<"W","W","W",".","T","i","e","n","d","a","C","o","l","u","c","c","i",".","c","o","m",".","a","r">>,
            <<"m",".","w","w","w",".","t","i","e","n","d","a","c","o","l","u","c","c","i",".","c","o","m",".","a","r">>,
            <<"a","@","m",".","w","w","w",".","t","i","e","n","d","a","c","o","l","u","c","c","i",".","c","o","m",".","a","r">>,
            <<"t","i","e","n","d","a","c","o","l","u","c","c","i",".","c","o","m",".","a","r">>,
            <<"e","v","i","l","w","w","w",".","t","i","e","n","d","a","c","o","l","u","c","c","i",".","c","o","m",".","a","r">>,
            <<"w","w","w",".","t","i","e","n","d","a","c","o","l","u","c","c","i",".","c","o","m",".","a","r",".","e","v","i","l",".","c","o","m">>,
            <<"w","w","w",".","t","i","e","n","d","a","c","o","l","u","c","c","i",".","c","o","m",".","a","r",":","4","4","3">>,
            <<"w","w","w",".","t","i","e","n","d","a","c","o","l","u","c","c","i",".","c","o","m",".","a","r","@","e","v","i","l",".","c","o","m">>,
            <<>>}
Tails == {<<"/","p","?","s","k","u","I","d","=","5">>,
          <<"/","y","e","r","b","a","/","p">>,
          <<>>,
          <<"/","s","k","u","/","1","2","?","q","=","1","#","x">>}
Paths == {<<>>,
          <<"/","y","e","r","b","a","/","p">>,
          <<"/","s","k","u","/","1","2","/","p">>,
          <<"/","I","t","e","m","-","3","4","x">>}
Pieces == {<<"s","k","u","I","d","=","5">>,
           <<"s","k","u","i","d","=","2">>,
           <<"i","t","e","m","I","d","=","7">>,
           <<"i","t","e","m","_","i","d","=","0","7">>,
           <<"I","T","E","M","_","I","D","=","1","2">>,
           <<"S","k","u","I","d","=","3">>,
           <<"I","t","e","m","I","d","=","4">>,
           <<"s","k","u","I","d","=","x">>,
           <<"s","k","u","I","d","=","0">>,
           <<"s","k","u","I","d","=">>,
           <<"q","=","1">>,
           <<"S","K","U","I","D","=","9">>,
           <<"s","k","u","%","4","9","d","=","6">>}
Fragments == {<<>>,
              <<"#","s","k","u","-","8">>}

\* every netloc, with a few paths and queries
UrlsDomain == {s \o n \o t : s \in Schemes, n \in Netlocs, t \in Tails}

\* the store's own domain, with every path, query and fragment
UrlsExtract ==
    {Https \o STORE_DOMAIN \o p
        \o (IF ps = <<>> THEN <<>> ELSE <<"?">> \o Join(ps, <<"&">>)) \o f :
        p \in Paths, ps \in SeqsUpTo(Pieces, MaxParams), f \in Fragments}

Urls == UrlsDomain \cup UrlsExtract

UrlSkuId5 == Https \o STORE_DOMAIN \o <<"/","y","e","r","b","a","/","p","?","s","k","u","I","d","=","5">>
UrlSkuId0 == Https \o STORE_DOMAIN \o <<"/","y","e","r","b","a","/","p","?","s","k","u","I","d","=","0">>
UrlPathSku == Https \o STORE_DOMAIN \o <<"/","s","k","u","/","1","2","/","p">>
UrlNoId == Https \o STORE_DOMAIN \o <<"/","y","e","r","b","a","/","p","?","q","=","1">>
UrlOtherDomain == Https \o <<"e","v","i","l",".","c","o","m","/","p","?","s","k","u","I","d","=","5">>
UrlsFew == {UrlSkuId5, UrlSkuId0, UrlPathSku, UrlNoId, UrlOtherDomain}

\* catalog answers
SkuPayloads ==
    {Dict([NameComplete |-> Str("Yerba 1kg"), Name |-> Str("Yerba")]),
     Dict([NameComplete |-> Str(""), name |-> Str("yerba")]),
     Dict([Id |-> Num(5)]),
     List(<<>>)}
CatalogOk == Http(200, Dict([NameComplete |-> Str("Yerba 1kg"), Name |-> Str("Yerba")]))
CatalogAnswers ==
    {Http(200, b) : b \in SkuPayloads}
    \cup {Http(200, NotJson), Http(404, NotJson), Http(500, NotJson), Http(403, NotJson),
          Http(301, NotJson), Timeout}

\* pricing answers
PriceValues == {None, Num(0), Num(199900), Num(125)}
ListValues == {None, Num(0), Num(250000)}
FixedEntries ==
    {Dict([tradePolicyId |-> Str("1"), value |-> Num(150375), listPrice |-> None]),
     Dict([tradePolicyId |-> Str("1"), value |-> Num(150375), listPrice |-> Num(300000)]),
     Dict([tradePolicyId |-> Str("1"), value |-> Num(0), listPrice |-> Num(300000)]),
     Dict([tradePolicyId |-> Str("1"), value |-> None, listPrice |-> Num(0)]),
     Dict([tradePolicyId |-> Str("2"), value |-> Num(140000), listPrice |-> Num(310000)])}
    \cup {Dict([TradePolicyId |-> Str("1"), Value |-> Num(99000), ListPrice |-> Num(120000)]),
          Dict([tradePolicyId |-> Num(1), value |-> Num(175000)]),
          Dict([value |-> Num(10000)])}
PricePayloads ==
    {Dict([basePrice |-> b, listPrice |-> l, fixedPrices |-> List(f)]) :
        b \in PriceValues, l \in ListValues, f \in SeqsUpTo(FixedEntries, MaxFixed)}
    \cup {Dict([BasePrice |-> Num(50000), ListPrice |-> Num(60000)]),
          Dict([BasePrice |-> Num(50000),
                FixedPrices |-> List(<<Dict([tradePolicyId |-> Str("1"), value |-> Num(45000)])>>)]),
          Dict([basePrice |-> Bad]),
          Dict([basePrice |-> Num(50000), listPrice |-> Bad]),
          List(<<>>)}
PricingOk == Http(200, Dict([basePrice |-> Num(199900), listPrice |-> Num(250000)]))
PricingNoList == Http(200, Dict([basePrice |-> Num(125)]))
PricingAnswers ==
    {Http(200, b) : b \in PricePayloads}
    \cup {Http(200, NotJson), Http(404, NotJson), Http(500, NotJson), Http(403, NotJson), Timeout}

\* inventory answers
BalanceEntries ==
    {Dict([totalQuantity |-> t, availableQuantity |-> a]) :
        t \in {None, Num(0), Num(3), Bad}, a \in {None, Num(2)}}
    \cup {Dict([availableQuantity |-> Num(0)]), Dict([availableQuantity |-> Bad]), Str("x")}
StockPayloads ==
    {Dict([balance |-> List(bs)]) : bs \in SeqsUpTo(BalanceEntries, MaxBalances)}
    \cup {Dict([Balance |-> List(<<Dict([totalQuantity |-> Num(4)])>>)]),
          Dict([balance |-> Dict([totalQuantity |-> Num(4)])]),
          Dict([skuId |-> Str("5")]),
          List(<<>>)}
StockOk == Http(200, Dict([balance |-> List(<<Dict([totalQuantity |-> Num(3)])>>)]))
StockForbidden == Http(403, NotJson)
StockAnswers ==
    {Http(200, b) : b \in StockPayloads}
    \cup {Http(200, NotJson), StockForbidden, Http(404, NotJson), Http(500, NotJson),
          Http(204, NotJson), Timeout}

Upstream(c, p, s) == [catalog |-> c, pricing |-> p, stock |-> s]

UpstreamFew ==
    {Upstream(CatalogOk, PricingOk, StockOk),
     Upstream(CatalogOk, Timeout, StockForbidden)}

(***************************************************************************)
(* The request: resolve()                                                  *)
(***************************************************************************)
Fresh ==
    /\ pc = "validate"
    /\ sku_id = None
    /\ product_name = None
    /\ pricing = None
    /\ stock = <<None, None>>
    /\ calls = <<>>
    /\ response = NoResponse

\* any URL against a few upstream behaviours
InitUrl ==
    /\ url \in Urls
    /\ upstream \in UpstreamFew
    /\ Fresh

\* a few URLs against every upstream behaviour
Init ==
    /\ \/ /\ url \in UrlsFew
          /\ upstream \in {Upstream(c, PricingOk, StockOk) : c \in CatalogAnswers}
       \/ /\ url \in {UrlSkuId5}
          /\ upstream \in {Upstream(CatalogOk, p, s) :
                              p \in PricingAnswers, s \in {StockOk, StockForbidden}}
       \/ /\ url \in {UrlSkuId5, UrlPathSku}
          /\ upstream \in {Upstream(CatalogOk, p, s) :
                              p \in {PricingOk, PricingNoList}, s \in StockAnswers}
    /\ Fresh

Fail(e) ==
    /\ response' = ErrorResponse(e)
    /\ pc' = "done"

\* line 218
ValidateDomain ==
    /\ pc = "validate"
    /\ LET r == validate_domain(url)
       IN  IF r.ok THEN pc' = "extract" /\ UNCHANGED response ELSE Fail(r.value)
    /\ UNCHANGED <<url, upstream, sku_id, product_name, pricing, stock, calls>>

\* lines 220-225
ExtractSku ==
    /\ pc = "extract"
    /\ sku_id' = extract_sku_id_from_url(url)
    /\ IF ~Truthy(sku_id')
       THEN Fail(HTTPException(400, "No pude detectar el SKU/ITEM_ID en la URL del QR"))
       ELSE pc' = "catalog" /\ UNCHANGED response
    /\ UNCHANGED <<url, upstream, product_name, pricing, stock, calls>>

\* lines 228-237
GetSkuBasic ==
    /\ pc = "catalog"
    /\ calls' = Append(calls, "catalog")
    /\ LET r == get_sku_basic(upstream.catalog)
       IN  IF ~r.ok THEN Fail(r.value) /\ UNCHANGED product_name
           ELSE LET n == ProductName(r.value, sku_id.n)
                IN  IF ~n.ok THEN Fail(n.value) /\ UNCHANGED product_name
                    ELSE /\ product_name' = n.value
                         /\ pc' = "pricing"
                         /\ UNCHANGED response
    /\ UNCHANGED <<url, upstream, sku_id, pricing, stock>>

\* line 239
GetPricing ==
    /\ pc = "pricing"
    /\ calls' = Append(calls, "pricing")
    /\ LET r == get_pricing_price_any_visibility(upstream.pricing, SALES_CHANNEL)
       IN  IF ~r.ok THEN Fail(r.value) /\ UNCHANGED pricing
           ELSE /\ pricing' = r.value
                /\ pc' = "stock"
                /\ UNCHANGED response
    /\ UNCHANGED <<url, upstream, sku_id, product_name, stock>>

\* line 242
GetStock ==
    /\ pc = "stock"
    /\ calls' = Append(calls, "stock")
    /\ LET r == get_stock_quantity_if_possible(upstream.stock)
       IN  IF ~r.ok THEN Fail(r.value) /\ UNCHANGED stock
           ELSE /\ stock' = r.value
                /\ pc' = "respond"
                /\ UNCHANGED response
    /\ UNCHANGED <<url, upstream, sku_id, product_name, pricing>>

\* lines 245-256
Respond ==
    /\ pc = "respond"
    /\ response' = [status |-> 200, detail |-> "",
                    body |-> ResponseBody(sku_id.n, product_name, pricing, stock[1], stock[2])]
    /\ pc' = "done"
    /\ UNCHANGED <<url, upstream, sku_id, product_name, pricing, stock, calls>>

Next ==
    \/ ValidateDomain
    \/ ExtractSku
    \/ GetSkuBasic
    \/ GetPricing
    \/ GetStock
    \/ Respond

Spec == Init /\ [][Next]_vars
SpecUrl == InitUrl /\ [][Next]_vars

(***************************************************************************)
(* Vocabulary of the properties, stated from the URL and from the upstream *)
(* answers rather than from the handler's own helpers.                     *)
(***************************************************************************)
NoIdentifierDetail == "No pude detectar el SKU/ITEM_ID en la URL del QR"
DomainDetails == {"Dominio no permitido", "URL sin dominio"}

ValidationRan == pc # "validate"
\* the domain check passed and extract_sku_id_from_url has returned
ExtractionRan == pc \notin {"validate", "extract"} /\ validate_domain(url).ok

\* the host of the URL: its netloc without user info and port; host names
\* compare without regard to case
HostOf(raw) ==
    LET n == Lower(urlparse(raw).netloc)
        ats == {i \in DOMAIN n : n[i] = "@"}
        h == IF ats = {} THEN n
             ELSE SubSeq(n, (CHOOSE i \in ats : \A j \in ats : j <= i) + 1, Len(n))
        c == Find(h, {":"}, 1)
    IN  IF c = 0 THEN h ELSE SubSeq(h, 1, c - 1)

HostAllowed(raw) ==
    \/ HostOf(raw) = Lower(STORE_DOMAIN)
    \/ EndsWith(HostOf(raw), <<".">> \o Lower(STORE_DOMAIN))

\* the recognized parameter names, in the order the specification fixes
Aliases == <<<<"s","k","u","I","d">>,
             <<"s","k","u","i","d">>,
             <<"i","t","e","m","I","d">>,
             <<"i","t","e","m","_","i","d">>,
             <<"I","T","E","M","_","I","D">>,
             <<"S","k","u","I","d">>,
             <<"I","t","e","m","I","d">>>>
AliasSet == Range(Aliases)
AliasIndex(name) == CHOOSE i \in DOMAIN Aliases : Aliases[i] = name
IsAlias(name) == name \in AliasSet

QueryPairs(raw) == parse_qs(urlparse(raw).query)

\* pair i is the first non-blank occurrence of its name
FirstOfName(qs, i) == \A j \in 1..(i - 1) : qs[j].name # qs[i].name

\* the pairs that give a recognized parameter an all-digit value
DigitPairs(qs) ==
    {i \in DOMAIN qs : IsAlias(qs[i].name) /\ FirstOfName(qs, i) /\ IsDigit(qs[i].value)}

\* among them, the one whose name comes first in the fixed order
PreferredPair(qs) ==
    CHOOSE i \in DigitPairs(qs) :
        \A j \in DigitPairs(qs) : AliasIndex(qs[i].name) <= AliasIndex(qs[j].name)

KeywordNumber(raw) == RegexSearch(urlparse(raw).path \o <<"?">> \o urlparse(raw).query)

NoIdentifierResponse == response.status = 400 /\ response.detail = NoIdentifierDetail

(***************************************************************************)
(* C1.  A URL whose host is neither the store domain nor a subdomain of it *)
(* is answered 400 with a domain error, whatever its path and query: the   *)
(* identifier is never extracted and no upstream endpoint is called.       *)
(***************************************************************************)
C1_DomainRejected ==
    (ValidationRan /\ ~HostAllowed(url)) =>
        /\ pc = "done"
        /\ response.status = 400
        /\ response.detail \in DomainDetails
        /\ sku_id = None
        /\ calls = <<>>

\* a foreign host with a valid skuId parameter has been rejected
C1_Witness ==
    /\ pc = "done"
    /\ response.status = 400
    /\ HostOf(url) # <<>>
    /\ ~HostAllowed(url)
    /\ DigitPairs(QueryPairs(url)) # {}

(***************************************************************************)
(* C2 as written.  Every recognized parameter of the URL that has an       *)
(* all-digit value N makes the extracted identifier N, whatever else the   *)
(* path and query hold.                                                    *)
(***************************************************************************)
C2_EveryAliasReturned ==
    ExtractionRan =>
        LET qs == QueryPairs(url)
        IN  \A i \in DOMAIN qs :
                (IsAlias(qs[i].name) /\ IsDigit(qs[i].value))
                    => sku_id = Num(ToInt(qs[i].value))

(***************************************************************************)
(* C2, amended.  A recognized parameter with an all-digit value N makes    *)
(* the extracted identifier N when it is the first non-blank occurrence of *)
(* its name and no alias earlier in the fixed order has an all-digit value,*)
(* whatever else the path and query hold.                                  *)
(***************************************************************************)
C2_FirstAliasReturned ==
    ExtractionRan =>
        LET qs == QueryPairs(url)
            ds == DigitPairs(qs)
        IN  \A i \in ds :
                (\A j \in ds : AliasIndex(qs[i].name) <= AliasIndex(qs[j].name))
                    => sku_id = Num(ToInt(qs[i].value))

\* the URL repeats a recognized parameter with two all-digit values, and the
\* first occurrence was extracted
C2_Witness ==
    /\ ExtractionRan
    /\ LET qs == QueryPairs(url)
       IN  \E i, j \in DOMAIN qs :
              /\ i < j
              /\ i \in DigitPairs(qs)
              /\ qs[j].name = qs[i].name
              /\ IsDigit(qs[j].value)
              /\ qs[j].value # qs[i].value
              /\ sku_id = Num(ToInt(qs[i].value))

(***************************************************************************)
(* C3 as written.  An allowed URL with no recognized parameter and no      *)
(* number next to a keyword is answered 400 "no identifier found" without  *)
(* any outbound call, and /resolve gives that answer only when the URL     *)
(* yields no identifier.                                                   *)
(***************************************************************************)
C3_NoIdentifier ==
    /\ (/\ pc = "done"
        /\ validate_domain(url).ok
        /\ \A i \in DOMAIN QueryPairs(url) : ~IsAlias(QueryPairs(url)[i].name)
        /\ KeywordNumber(url) = <<>>)
            => (NoIdentifierResponse /\ calls = <<>>)
    /\ NoIdentifierResponse => sku_id = None

\* the first half of C3 alone: no parameter and no keyword number give the
\* 400 "no identifier found", with no outbound call
C3_ExtractionFails ==
    (/\ pc = "done"
     /\ validate_domain(url).ok
     /\ \A i \in DOMAIN QueryPairs(url) : ~IsAlias(QueryPairs(url)[i].name)
     /\ KeywordNumber(url) = <<>>)
        => (NoIdentifierResponse /\ calls = <<>> /\ sku_id = None)

Called(endpoint) == \E i \in DOMAIN calls : calls[i] = endpoint

\* the answer is a 2xx response carrying a JSON object
JsonObject(answer) ==
    /\ answer.outcome = "response"
    /\ answer.status \in 200..299
    /\ answer.body # NotJson
    /\ answer.body.k = "dict"

\* the answer is a 2xx response carrying JSON
Succeeded(answer) ==
    /\ answer.outcome = "response"
    /\ answer.status \in 200..299
    /\ answer.body # NotJson

\* a field that is present (not null) under either spelling of its key
Field(obj, key, Key) ==
    IF DictGet(obj, key) # None THEN DictGet(obj, key) ELSE DictGet(obj, Key)

\* the fixed-price entries of a pricing payload
FixedList(data) ==
    LET f == Field(data, "fixedPrices", "FixedPrices")
    IN  IF f = None THEN <<>> ELSE f.items

\* the positions of the entries whose trade policy is the sales channel
Matching(data) ==
    {i \in DOMAIN FixedList(data) :
        LET t == Field(FixedList(data)[i], "tradePolicyId", "TradePolicyId")
        IN  t # None /\ PyStr(t) = SALES_CHANNEL}

\* the first of them (Matching(data) not empty)
FirstMatching(data) ==
    FixedList(data)[CHOOSE i \in Matching(data) : \A j \in Matching(data) : i <= j]

\* the selling price the specification selects, None when there is none
SelectedPrice(data) ==
    IF Matching(data) # {} /\ Field(FirstMatching(data), "value", "Value") # None
    THEN Field(FirstMatching(data), "value", "Value")
    ELSE Field(data, "basePrice", "BasePrice")

\* the upstream list price: the matching entry's, else the payload's
UpstreamListPrice(data) ==
    IF Matching(data) # {} /\ Field(FirstMatching(data), "listPrice", "ListPrice") # None
    THEN Field(FirstMatching(data), "listPrice", "ListPrice")
    ELSE Field(data, "listPrice", "ListPrice")

NoPriceResponse == response.status = 404 /\ response.detail = "SKU sin precio configurado"

(***************************************************************************)
(* C5 as written.  For every pricing payload the selling price is the      *)
(* value of the first fixed-price entry of the sales channel when there is *)
(* one, else the base price; the request fails 404 "no price configured"   *)
(* exactly when neither is present (or the endpoint itself answers 404).   *)
(***************************************************************************)
C5_PriceSelection ==
    (Called("pricing") /\ pc = "done" /\ JsonObject(upstream.pricing)) =>
        LET want == SelectedPrice(upstream.pricing.body)
        IN  /\ NoPriceResponse <=> want = None
            /\ pricing # None => pricing.selling = want

(***************************************************************************)
(* C6 as written.  sellingPrice and listPrice are each round(value * 100); *)
(* listPrice is null when the upstream list price is null or absent, never *)
(* 0 then, and a present upstream list price is never dropped to null.     *)
(***************************************************************************)
C6_PriceConversion ==
    (pc = "done" /\ response.status = 200) =>
        LET up == UpstreamListPrice(upstream.pricing.body)
        IN  /\ response.body.sellingPrice = Num(RoundCents(pricing.selling.n))
            /\ up = None => response.body.listPrice = None
            /\ up # None => response.body.listPrice = Num(RoundCents(up.n))

\* the conversion alone: each field of the response is the rounding of the
\* value get_pricing_price_any_visibility returned, null staying null
C6_ConversionOfReturned ==
    (pc = "done" /\ response.status = 200) =>
        /\ response.body.sellingPrice = Num(RoundCents(pricing.selling.n))
        /\ pricing.list = None => response.body.listPrice = None
        /\ pricing.list # None => response.body.listPrice = Num(RoundCents(pricing.list.n))

(***************************************************************************)
(* Stock vocabulary.                                                       *)
(***************************************************************************)
\* the warehouse entries of an inventory payload
Balances(data) ==
    LET b == Field(data, "balance", "Balance")
    IN  IF b # None /\ b.k = "list" THEN b.items ELSE <<>>

\* the quantity field an entry contributes: total, else available, else None
EntryQuantity(b) ==
    IF DictGet(b, "totalQuantity") # None THEN DictGet(b, "totalQuantity")
    ELSE DictGet(b, "availableQuantity")

\* every entry is an object whose contributing field, if any, is a number
WellFormed(answer) ==
    /\ JsonObject(answer)
    /\ \A i \in DOMAIN Balances(answer.body) :
          /\ Balances(answer.body)[i].k = "dict"
          /\ EntryQuantity(Balances(answer.body)[i]) # Bad

Usable(bs) == {i \in DOMAIN bs : EntryQuantity(bs[i]) # None}

RECURSIVE Total(_)
Total(bs) ==
    IF bs = <<>> THEN 0
    ELSE (IF EntryQuantity(Head(bs)) = None THEN 0 ELSE EntryQuantity(Head(bs)).n)
         + Total(Tail(bs))

\* the inventory call gave no usable quantity: 403, 404, another non-2xx
\* status, a timeout, a malformed payload, or no usable quantity field
StockFailed(answer) ==
    \/ ~WellFormed(answer)
    \/ Usable(Balances(answer.body)) = {}

(***************************************************************************)
(* C7.  Once the catalog and pricing calls have succeeded, /resolve        *)
(* answers 200 with sellingPrice populated whatever the inventory call     *)
(* does; when that call fails in any way, availableQuantity and inStock    *)
(* are both null.                                                          *)
(***************************************************************************)
C7_StockNeverBlocks ==
    (pc = "done" /\ pricing # None) =>
        /\ Called("stock")
        /\ response.status = 200
        /\ IsNum(response.body.sellingPrice)
        /\ StockFailed(upstream.stock) =>
              /\ response.body.availableQuantity = None
              /\ response.body.inStock = None

\* the inventory endpoint answered 403 and the price was still returned
C7_Witness ==
    /\ pc = "done"
    /\ upstream.stock = StockForbidden
    /\ response.status = 200
    /\ response.body.sellingPrice = Num(19990)
    /\ response.body.availableQuantity = None
    /\ response.body.inStock = None

(***************************************************************************)
(* C8 as written.  A failure of the catalog or pricing call (a non-2xx     *)
(* status other than the handled 404, a malformed payload, a timeout) is   *)
(* answered 502; an unknown SKU or unconfigured price 404; a bad URL or    *)
(* missing identifier 400; /resolve produces no other error status.        *)
(***************************************************************************)
UpstreamFailure(answer) ==
    \/ answer.outcome = "timeout"
    \/ answer.status \notin (200..299) \cup {404}
    \/ answer.body = NotJson

C8_ErrorStatus ==
    pc = "done" =>
        /\ response.status \in {200, 400, 404, 502}
        /\ (Called("catalog") /\ UpstreamFailure(upstream.catalog)) => response.status = 502
        /\ (Called("pricing") /\ UpstreamFailure(upstream.pricing)) => response.status = 502

(***************************************************************************)
(* C9.  The outbound calls of a request are catalog, then pricing, then    *)
(* stock, each at most once: pricing is called only after the catalog call *)
(* succeeded, stock only after the pricing call succeeded, and a failed    *)
(* catalog or pricing call ends the request with an error and no further   *)
(* call.                                                                   *)
(***************************************************************************)
CallOrder == <<"catalog", "pricing", "stock">>

C9_SequentialCalls ==
    /\ Len(calls) <= Len(CallOrder)
    /\ calls = SubSeq(CallOrder, 1, Len(calls))
    /\ Called("pricing") => Succeeded(upstream.catalog)
    /\ Called("stock") => (Succeeded(upstream.pricing) /\ pricing # None)
    /\ (Called("catalog") /\ ~Succeeded(upstream.catalog)) =>
          (pc = "done" /\ response.status >= 400 /\ calls = <<"catalog">>)
    /\ (Called("pricing") /\ pricing = None) =>
          (pc = "done" /\ response.status >= 400 /\ calls = <<"catalog", "pricing">>)

\* the pricing call failed after a successful catalog call and ended the request
C9_Witness ==
    /\ pc = "done"
    /\ calls = <<"catalog", "pricing">>
    /\ ~Succeeded(upstream.pricing)
    /\ response.status >= 400

(***************************************************************************)
(* C10.  The stock quantity is the sum over the warehouse entries of the   *)
(* total quantity when present, else of the available quantity; with no    *)
(* usable field the result is unknown, never 0.  In every response         *)
(* availableQuantity is null exactly when inStock is null, and a known     *)
(* quantity q comes with inStock = (q > 0), so a known 0 is 0 / false.     *)
(***************************************************************************)
C10_StockResult ==
    /\ (Called("stock") /\ WellFormed(upstream.stock)) =>
          LET bs == Balances(upstream.stock.body)
          IN  IF Usable(bs) = {} THEN stock = <<None, None>>
              ELSE stock = <<Num(Total(bs)), Bool(Total(bs) > 0)>>
    /\ (stock[1] = None) <=> (stock[2] = None)
    /\ stock[1] # None => stock[2] = Bool(stock[1].n > 0)
    /\ (pc = "done" /\ response.status = 200) =>
          /\ response.body.availableQuantity = stock[1]
          /\ response.body.inStock = stock[2]

\* two warehouses, the first with a total of 0 beside an available quantity
\* of 2: the known total 0 was answered as 0 and not in stock
C10_Witness ==
    /\ pc = "done"
    /\ response.status = 200
    /\ WellFormed(upstream.stock)
    /\ Len(Balances(upstream.stock.body)) = 2
    /\ Usable(Balances(upstream.stock.body)) = {1, 2}
    /\ DictGet(Balances(upstream.stock.body)[1], "totalQuantity") = Num(0)
    /\ DictGet(Balances(upstream.stock.body)[1], "availableQuantity") = Num(2)
    /\ response.body.availableQuantity = Num(0)
    /\ response.body.inStock = Bool(FALSE)

====
